---- MODULE Spec2Model ----
(***************************************************************************)
(* Model of qiskit_metal/_gui/widgets/edit_component/tree_model_options.py *)
(* : the option dictionary of the selected component, the BranchNode /     *)
(* LeafNode graph that load() derives from it, the QAbstractItemModel      *)
(* methods of QTreeModel_Options and parse_param_from_str.                 *)
(*                                                                         *)
(* Encoding of Python values.  Every value is a record of one shape        *)
(*   [t, s, n, items, elem]                                                *)
(* t = "str"  : s is the text, a sequence of one-character strings         *)
(* t = "int"  : n is the number                                            *)
(* t = "dict" : items is the ordered sequence of <<key, value>> pairs      *)
(* t = "set"  : elem is the sequence of its elements                       *)
(* t = "None" : the None object                                            *)
(***************************************************************************)
EXTENDS Integers, Sequences, FiniteSets, TLC

\* ------------------------------------------------------------------ bounds
MaxEntries == 2      \* keys of the option dictionary, all levels together
MaxBuildEntries == 3 \* the same, where only the tree builder runs
MaxTextLen == 3      \* characters of a text handed to parse_param_from_str

Keys     == {"a", "b"}
Alphabet == {"1", "2", "h", " ", "'", "{", "}"}
Digits   == {"1", "2"}

\* ------------------------------------------------------------ Python values
StrV(s)      == [t |-> "str",  s |-> s,    n |-> 0, items |-> <<>>, elem |-> <<>>]
IntV(n)      == [t |-> "int",  s |-> <<>>, n |-> n, items |-> <<>>, elem |-> <<>>]
DictV(items) == [t |-> "dict", s |-> <<>>, n |-> 0, items |-> items, elem |-> <<>>]
SetV(e)      == [t |-> "set",  s |-> <<>>, n |-> 0, items |-> <<>>, elem |-> <<e>>]
NoneV        == [t |-> "None", s |-> <<>>, n |-> 0, items |-> <<>>, elem |-> <<>>]

\* the element of a set of one element; { e(x) : x \in {v} } evaluates v once
Only(S) == CHOOSE x \in S : TRUE

Last(s)  == s[Len(s)]
Front(s) == SubSeq(s, 1, Len(s) - 1)
Min(S)   == CHOOSE x \in S : \A y \in S : x <= y

\* isinstance(v, dict) / isinstance(v, str)
IsDict(v) == v.t = "dict"
IsStr(v)  == v.t = "str"

\* key in dic, dic[key], dic[key] = value on the ordered items of a dict
HasKey(items, k) == \E i \in 1..Len(items) : items[i][1] = k
GetKey(items, k) == items[Min({i \in 1..Len(items) : items[i][1] = k})][2]
PutKey(items, k, v) ==
    IF HasKey(items, k)
    THEN [i \in 1..Len(items) |->
            IF items[i][1] = k THEN <<k, v>> ELSE items[i]]
    ELSE Append(items, <<k, v>>)

\* outcome of an expression that may raise
Ok(v)      == [ok |-> TRUE,  err |-> "",  v |-> v]
Raise(err) == [ok |-> FALSE, err |-> err, v |-> NoneV]

\* dic[key] with a missing key answered by None, as dict.get(key) does
Subscript_get(dic, key) ==
    IF IsDict(dic)
    THEN IF HasKey(dic.items, key) THEN Ok(GetKey(dic.items, key))
         ELSE Ok(NoneV)
    ELSE Raise("TypeError")

\* dic[key]: KeyError on a dict without the key, TypeError on a non-dict
Subscript(dic, key) ==
    IF IsDict(dic)
    THEN IF HasKey(dic.items, key) THEN Ok(GetKey(dic.items, key))
         ELSE Raise("KeyError")
    ELSE Raise("TypeError")

\* ------------------------------------------------------------ Path Resolver
RECURSIVE get_nested_dict_item(_, _, _)
get_nested_dict_item(dic, key_list, level) ==
    IF key_list = <<>> THEN Ok(dic)
    ELSE IF level < Len(key_list) - 1
    THEN LET sub == Subscript(dic, key_list[level + 1])
         IN  IF sub.ok THEN get_nested_dict_item(sub.v, key_list, level + 1)
             ELSE sub
    ELSE Subscript(dic, key_list[level + 1])

\* ------------------------------------------------------------- Tree Builder
\* A recorded path curpath + [k, v] is kept as [keys |-> curpath + [k], v |-> v]:
\* path[:-2] = Front(keys), path[-2] = Last(keys), path[:-1] = keys, path[-1] = v.
RECURSIVE getPaths(_, _)

\* getPaths with the recursive call made on curpath instead of curpath + [k]
getPaths_samePath(curdict, curpath) ==
    IF curdict = <<>> THEN <<>>
    ELSE LET k == Head(curdict)[1]
             v == Head(curdict)[2]
             here == IF IsDict(v) THEN getPaths(v.items, curpath)
                     ELSE << [keys |-> Append(curpath, k), v |-> v] >>
         IN  here \o getPaths(Tail(curdict), curpath)

\* getPaths recursing only into a mapping that is not empty: an empty mapping
\* is recorded as a value
getPaths_emptyAsValue(curdict, curpath) ==
    IF curdict = <<>> THEN <<>>
    ELSE LET k == Head(curdict)[1]
             v == Head(curdict)[2]
             here == IF IsDict(v) /\ v.items # <<>>
                     THEN getPaths(v.items, Append(curpath, k))
                     ELSE << [keys |-> Append(curpath, k), v |-> v] >>
         IN  here \o getPaths(Tail(curdict), curpath)

getPaths(curdict, curpath) ==
    IF curdict = <<>> THEN <<>>
    ELSE LET k == Head(curdict)[1]
             v == Head(curdict)[2]
             here == IF IsDict(v) THEN getPaths(v.items, Append(curpath, k))
                     ELSE << [keys |-> Append(curpath, k), v |-> v] >>
         IN  here \o getPaths(Tail(curdict), curpath)

\* The node graph is an arena: nodes[id] is the object with identity id,
\* parent = 0 and branch = 0 stand for None.  Root is self.root.
\* data is the _data reference: "None" or "options" (the component's dictionary).
Root == 1

BranchNode(name, parent, data) ==
    [kind |-> "branch", name |-> name, parent |-> parent,
     children |-> <<>>, path |-> <<>>, data |-> data]

\* LeafNode given path[:-2] for path[:-1]: the path without the leaf's own key
LeafNode_pathWithoutLabel(label, parent, path) ==
    [kind |-> "leaf", name |-> label, parent |-> parent,
     children |-> <<>>, path |-> Front(path), data |-> "None"]

LeafNode(label, parent, path) ==
    [kind |-> "leaf", name |-> label, parent |-> parent,
     children |-> <<>>, path |-> path, data |-> "None"]

NewRoot == << BranchNode("", 0, "None") >>

\* truth value of a node reference: None is false, a BranchNode is false when
\* it has no children (BranchNode.__len__), a LeafNode is always true
Truthy(ns, id) ==
    /\ id # 0
    /\ \/ ns[id].kind = "leaf"
       \/ Len(ns[id].children) > 0

\* childWithKey() that finds no child, whatever the key
childWithKey_notFound(ns, b, key) == 0

childWithKey(ns, b, key) ==
    LET ch   == ns[b].children
        hits == {i \in 1..Len(ch) : ch[i][1] = key}
    IN  IF hits = {} THEN 0 ELSE ch[Min(hits)][2]

childAtRow(ns, b, row) ==
    IF 0 <= row /\ row < Len(ns[b].children)
    THEN ns[b].children[row + 1][2] ELSE 0

rowOfChild(ns, b, child) ==
    LET ch   == ns[b].children
        hits == {i \in 1..Len(ch) : ch[i][2] = child}
    IN  IF hits = {} THEN -1 ELSE Min(hits) - 1

\* hasLeaves(): the first child is a LeafNode
hasLeaves(ns, b) ==
    IF ns[b].children = <<>> THEN FALSE
    ELSE ns[ns[b].children[1][2]].kind = "leaf"

\* insertChild of a node object constructed just before: it becomes
\* nodes[Len(nodes) + 1]
insertChild(ns, b, child) ==
    LET id == Len(ns) + 1
    IN  [Append(ns, [child EXCEPT !.parent = b])
            EXCEPT ![b].children = Append(@, <<child.name, id>>)]

\* the inner loop of load(): for key in path[:-2]
RECURSIVE loadWalk(_, _, _, _)
loadWalk(ns, root, branch, keys) ==
    IF keys = <<>> THEN [nodes |-> ns, root |-> root, branch |-> branch]
    ELSE LET found == childWithKey(ns, root, Head(keys))
         IN  IF ~Truthy(ns, found)
             THEN LET ns2 == insertChild(ns, root,
                                BranchNode(Head(keys), 0, "options"))
                  IN  loadWalk(ns2, Len(ns2), Len(ns2), Tail(keys))
             ELSE loadWalk(ns, found, found, Tail(keys))

\* the leaf always added right below the master root
loadPath_underRoot(ns, path) ==
    LET w == loadWalk(ns, Root, 0, Front(path.keys))
    IN  insertChild(w.nodes, Root, LeafNode(Last(path.keys), Root, path.keys))

\* the leaf given its own key alone as path
loadPath_pathIsLabel(ns, path) ==
    LET w == loadWalk(ns, Root, 0, Front(path.keys))
    IN  IF ~Truthy(w.nodes, w.branch)
        THEN insertChild(w.nodes, w.root,
                         LeafNode(Last(path.keys), w.root,
                                  << Last(path.keys) >>))
        ELSE insertChild(w.nodes, w.branch,
                         LeafNode(Last(path.keys), w.branch,
                                  << Last(path.keys) >>))

\* one iteration of: for path in self.paths
loadPath(ns, path) ==
    LET w == loadWalk(ns, Root, 0, Front(path.keys))
    IN  IF ~Truthy(w.nodes, w.branch)
        THEN insertChild(w.nodes, w.root,
                         LeafNode(Last(path.keys), w.root, path.keys))
        ELSE insertChild(w.nodes, w.branch,
                         LeafNode(Last(path.keys), w.branch, path.keys))

RECURSIVE loadPaths(_, _)
loadPaths(ns, ps) ==
    IF ps = <<>> THEN ns ELSE loadPaths(loadPath(ns, Head(ps)), Tail(ps))

\* load() without root.children.clear(): the new nodes are added to the old
load_noClear(comp, ns, dict) ==
    IF ~comp THEN [nodes |-> ns, done |-> FALSE]
    ELSE [nodes |-> loadPaths([ns EXCEPT ![Root].data = "options"],
                              getPaths(dict.items, <<>>)),
          done |-> TRUE]

\* load(): the node graph after the call, and whether the tree was rebuilt
\* (nothing happens when no component is bound).  self.paths is cleared and
\* refilled by every rebuild and read nowhere else: it is the local newps.
load(comp, ns, dict) ==
    IF ~comp THEN [nodes |-> ns, done |-> FALSE]
    ELSE LET cleared == << [ns[Root] EXCEPT !.data = "options",
                                            !.children = <<>>] >>
             newps   == getPaths(dict.items, <<>>)
         IN  [nodes |-> loadPaths(cleared, newps), done |-> TRUE]

\* ----------------------------------------------------------- Value Coercion
\* str.strip() on a text whose only whitespace character is the blank
RECURSIVE lstrip(_)
lstrip(s) == IF s # <<>> /\ Head(s) = " " THEN lstrip(Tail(s)) ELSE s

RECURSIVE rstrip(_)
rstrip(s) == IF s # <<>> /\ Last(s) = " " THEN rstrip(Front(s)) ELSE s

strip(s) == rstrip(lstrip(s))

\* ast.literal_eval on texts over Alphabet.  The Python grammar restricted to
\* these characters is
\*     atom ::= NUMBER | STRING+ | "{" "}" | "{" atom "}"
\* with blanks allowed between tokens; a name (h...) is never a literal, a
\* number directly followed by a letter is no token, three quotes open a
\* triple-quoted string, and a set element must be hashable.
\* A parse result is [ok, v, next]: next is the position after the atom.
NoParse == [ok |-> FALSE, v |-> NoneV, next |-> 0]

RECURSIVE skipBlanks(_, _)
skipBlanks(s, i) ==
    IF i <= Len(s) /\ s[i] = " " THEN skipBlanks(s, i + 1) ELSE i

RECURSIVE digitsEnd(_, _)
digitsEnd(s, i) ==
    IF i <= Len(s) /\ s[i] \in Digits THEN digitsEnd(s, i + 1) ELSE i

DigitValue(c) == IF c = "1" THEN 1 ELSE 2

RECURSIVE numberValue(_)
numberValue(ds) ==
    IF ds = <<>> THEN 0 ELSE 10 * numberValue(Front(ds)) + DigitValue(Last(ds))

IsTriple(s, i) ==
    i + 2 <= Len(s) /\ s[i] = "'" /\ s[i + 1] = "'" /\ s[i + 2] = "'"

\* position of the first closing quote (triple quote) at or after i, 0 if none
findQuote(s, i) ==
    LET hits == {k \in i..Len(s) : s[k] = "'"}
    IN  IF hits = {} THEN 0 ELSE Min(hits)

findTriple(s, i) ==
    LET hits == {k \in i..Len(s) : IsTriple(s, k)}
    IN  IF hits = {} THEN 0 ELSE Min(hits)

\* one string literal starting at the quote s[i]; v is its text
stringLiteral(s, i) ==
    IF IsTriple(s, i)
    THEN LET k == findTriple(s, i + 3)
         IN  IF k = 0 THEN [ok |-> FALSE, v |-> <<>>, next |-> 0]
             ELSE [ok |-> TRUE, v |-> SubSeq(s, i + 3, k - 1), next |-> k + 3]
    ELSE LET k == findQuote(s, i + 1)
         IN  IF k = 0 THEN [ok |-> FALSE, v |-> <<>>, next |-> 0]
             ELSE [ok |-> TRUE, v |-> SubSeq(s, i + 1, k - 1), next |-> k + 1]

\* adjacent string literals are concatenated
RECURSIVE stringLiterals(_, _)
stringLiterals(s, i) ==
    LET one == stringLiteral(s, i)
        j   == skipBlanks(s, one.next)
    IN  IF ~one.ok THEN one
        ELSE IF j <= Len(s) /\ s[j] = "'"
        THEN LET more == stringLiterals(s, j)
             IN  IF ~more.ok THEN more
                 ELSE [ok |-> TRUE, v |-> one.v \o more.v, next |-> more.next]
        ELSE one

RECURSIVE literalAtom(_, _)
literalAtom(s, i0) ==
    LET i == skipBlanks(s, i0)
    IN  IF i > Len(s) THEN NoParse
        ELSE IF s[i] \in Digits
        THEN LET j == digitsEnd(s, i)
             IN  IF j <= Len(s) /\ s[j] = "h" THEN NoParse
                 ELSE [ok |-> TRUE, v |-> IntV(numberValue(SubSeq(s, i, j - 1))),
                       next |-> j]
        ELSE IF s[i] = "'"
        THEN LET lit == stringLiterals(s, i)
             IN  IF ~lit.ok THEN NoParse
                 ELSE [ok |-> TRUE, v |-> StrV(lit.v), next |-> lit.next]
        ELSE IF s[i] = "{"
        THEN LET j == skipBlanks(s, i + 1)
             IN  IF j <= Len(s) /\ s[j] = "}"
                 THEN [ok |-> TRUE, v |-> DictV(<<>>), next |-> j + 1]
                 ELSE LET e == literalAtom(s, i + 1)
                          k == skipBlanks(s, e.next)
                      IN  IF e.ok /\ k <= Len(s) /\ s[k] = "}"
                             /\ e.v.t \in {"int", "str"}
                          THEN [ok |-> TRUE, v |-> SetV(e.v), next |-> k + 1]
                          ELSE NoParse
        ELSE NoParse

\* ast.literal_eval(text): Ok(value), or the exception it raises
literal_eval(text) ==
    LET a == literalAtom(text, 1)
    IN  IF a.ok /\ skipBlanks(text, a.next) > Len(text) THEN Ok(a.v)
        ELSE Raise("Exception")

\* what the clause "except Exception" catches of the exceptions raised here
exceptException == {"Exception", "SyntaxError", "ValueError", "TypeError"}

\* parse_param_from_str without the strip()
parse_param_from_str_noStrip(text0) ==
    LET lit == literal_eval(text0)
    IN  IF lit.ok THEN [value |-> lit.v, used_ast |-> TRUE, raised |-> FALSE]
        ELSE [value |-> StrV(text0), used_ast |-> FALSE, raised |-> FALSE]

\* parse_param_from_str(text) -> (value, used_ast); raised tells whether an
\* exception leaves the function
parse_param_from_str(text0) ==
    LET text == strip(text0)
        lit  == literal_eval(text)
    IN  IF lit.ok THEN [value |-> lit.v, used_ast |-> TRUE, raised |-> FALSE]
        ELSE [value |-> StrV(text), used_ast |-> FALSE,
              raised |-> lit.err \notin exceptException]

\* str(value) and repr(value) of the values above
DigitChar(d) ==
    CASE d = 0 -> "0" [] d = 1 -> "1" [] d = 2 -> "2" [] d = 3 -> "3"
      [] d = 4 -> "4" [] d = 5 -> "5" [] d = 6 -> "6" [] d = 7 -> "7"
      [] d = 8 -> "8" [] OTHER -> "9"

RECURSIVE intText(_)
intText(n) ==
    IF n < 10 THEN << DigitChar(n) >>
    ELSE Append(intText(n \div 10), DigitChar(n % 10))

quoted(s) ==
    IF \E i \in 1..Len(s) : s[i] = "'"
    THEN <<"\"">> \o s \o <<"\"">>
    ELSE <<"'">> \o s \o <<"'">>

RECURSIVE repr(_)
RECURSIVE reprItems(_)
reprItems(items) ==
    IF items = <<>> THEN <<>>
    ELSE quoted(<< Head(items)[1] >>) \o <<":", " ">> \o repr(Head(items)[2])
         \o (IF Tail(items) = <<>> THEN <<>>
             ELSE <<",", " ">> \o reprItems(Tail(items)))

repr(v) ==
    CASE v.t = "str"  -> quoted(v.s)
      [] v.t = "int"  -> intText(v.n)
      [] v.t = "dict" -> <<"{">> \o reprItems(v.items) \o <<"}">>
      [] v.t = "set"  -> <<"{">> \o repr(v.elem[1]) \o <<"}">>
      [] OTHER        -> <<"N", "o", "n", "e">>

str(v) == IF IsStr(v) THEN v.s ELSE repr(v)

\* ------------------------------------------------------ option dictionaries
\* number of keys of a dictionary, all levels together
RECURSIVE entries(_)
entries(items) ==
    IF items = <<>> THEN 0
    ELSE 1 + (IF IsDict(Head(items)[2]) THEN entries(Head(items)[2].items)
              ELSE 0)
           + entries(Tail(items))

\* option values the component or the user's scripts store: a string option
\* and a non-string option
ScalarsBase == {StrV(<<"1">>), IntV(2)}

\* the ordered item lists of the dictionaries of nesting depth <= depth with
\* at most n keys
RECURSIVE DictItems(_, _)
DictItems(depth, n) ==
    IF depth = 0 \/ n = 0 THEN {<<>>}
    ELSE {<<>>} \cup UNION { UNION {
            { << <<k, v>> >> \o rest :
                rest \in {r \in DictItems(depth,
                                 n - 1 - (IF IsDict(v) THEN entries(v.items)
                                          ELSE 0)) : ~HasKey(r, k)} } :
            v \in ScalarsBase
                  \cup {DictV(i) : i \in DictItems(depth - 1, n - 1)} } :
            k \in Keys }

Dicts      == {DictV(i) : i \in DictItems(MaxEntries, MaxEntries)}
BuildDicts == {DictV(i) : i \in DictItems(MaxBuildEntries, MaxBuildEntries)}

DelKey(items, k) == SelectSeq(items, LAMBDA p : p[1] # k)

\* the dictionaries one in-place operation away from dic: dic[k] = v or
\* del dic[k] on dic itself or on a dictionary nested in it
RECURSIVE mutations(_)
mutations(dic) ==
    {DictV(PutKey(dic.items, k, v)) :
        k \in Keys, v \in ScalarsBase \cup {DictV(<<>>)}}
    \cup {DictV(DelKey(dic.items, k)) : k \in {j \in Keys : HasKey(dic.items, j)}}
    \cup UNION { {DictV(PutKey(dic.items, dic.items[i][1], m)) :
                    m \in mutations(dic.items[i][2])} :
                 i \in {j \in 1..Len(dic.items) : IsDict(dic.items[j][2])} }

\* texts the user types into the value editor, and the texts handed to
\* parse_param_from_str where it is checked alone
EditTexts == {<<"1">>, <<" ", "h">>}
Texts     == UNION {[1..n -> Alphabet] : n \in 0..MaxTextLen}

Roles   == {"EditRole", "DisplayRole"}
Rows    == -1..MaxBuildEntries
DataRoles == Roles \cup {"FontRole", "TextAlignmentRole"}
Columns == {0, 1, 2}

\* ------------------------------------------------------------------- state
VARIABLES
    component,      \* TRUE: a component is selected; FALSE: component is None
    options,        \* component.options, the live dictionary
    nodes,          \* the node graph under self.root
    rowCountCache,  \* self._rowCount
    view,           \* self._view is set
    last,           \* the last call: its arguments, result and emitted calls
    tickRows        \* history: children of the root at the previous timer
                    \* tick, -1 before the first tick

vars == <<component, options, nodes, rowCountCache, view, last, tickRows>>

\* ------------------------------------------------------------ model indexes
\* QModelIndex(): the invalid index.  createIndex(row, column, ptr): a valid
\* index whose internalPointer() is ptr (0: None).
QModelIndex == [row |-> -1, column |-> -1, ptr |-> 0]
createIndex(row, column, ptr) == [row |-> row, column |-> column, ptr |-> ptr]
isValid(index) == index.row >= 0 /\ index.column >= 0

nodeFromIndex(index) == IF isValid(index) THEN index.ptr ELSE Root

\* the indexes a caller can hold: the invalid one, valid ones without node
\* (as index() returns for a row out of range) and one per node and column
Indexes ==
    {QModelIndex} \cup {createIndex(0, c, 0) : c \in Columns}
    \cup {createIndex(rowOfChild(nodes, nodes[n].parent, n), c, n) :
            n \in 2..Len(nodes), c \in Columns}

\* flags without the test of the column
flags_anyColumn(index) ==
    /\ nodeFromIndex(index) # 0
    /\ nodes[nodeFromIndex(index)].kind = "leaf"

\* flags(index): TRUE when ItemIsEditable is among the flags
flags(index) ==
    /\ index.column = 1
    /\ nodeFromIndex(index) # 0
    /\ nodes[nodeFromIndex(index)].kind = "leaf"

\* LeafNode.value: get_nested_dict_item(self.parent._data, self.path)
dataOf(ref) == IF ref = "options" THEN options ELSE NoneV
value(node) ==
    get_nested_dict_item(dataOf(nodes[nodes[node].parent].data),
                         nodes[node].path, 0)

\* data(index, role): what the call returns (ret is "QVariant", "font",
\* "alignment", "text" with the text, "parsed" for the string of what
\* design.parse_value returned) or the exception it ends in (ret "raise").
\* parseOk: design.parse_value(value) returns (TRUE) or raises (FALSE).
dataReturn(ret, text, err) == [ret |-> ret, text |-> text, err |-> err]

RECURSIVE data(_, _, _)
data(index, role, parseOk) ==
    LET node == nodeFromIndex(index)
    IN  IF ~isValid(index) THEN dataReturn("QVariant", <<>>, "")
        ELSE IF ~component THEN dataReturn("QVariant", <<>>, "")
        ELSE IF role = "EditRole" THEN data(index, "DisplayRole", parseOk)
        ELSE IF role = "FontRole" /\ index.column = 0
        THEN dataReturn("font", <<>>, "")
        ELSE IF role = "TextAlignmentRole"
        THEN dataReturn("alignment", <<>>, "")
        ELSE IF role = "DisplayRole" /\ Truthy(nodes, node)
        THEN IF nodes[node].kind = "branch"
             THEN dataReturn("text",
                     IF index.column = 0 THEN <<nodes[node].name>> ELSE <<>>,
                     "")
             ELSE IF index.column = 0
             THEN dataReturn("text", <<nodes[node].name>>, "")
             ELSE IF index.column \in {1, 2}
             THEN Only({ IF ~v.ok THEN dataReturn("raise", <<>>, v.err)
                         ELSE IF index.column = 1
                         THEN dataReturn("text", str(v.v), "")
                         ELSE IF parseOk THEN dataReturn("parsed", <<>>, "")
                         ELSE dataReturn("raise", <<>>, "parse_value") :
                         v \in {value(node)} })
             ELSE dataReturn("QVariant", <<>>, "")
        ELSE dataReturn("QVariant", <<>>, "")

\* QTreeModel_Options.index(row, column, parent): Ok(the index) or the exception raised.
\* assert self.root fails on a root without children (BranchNode.__len__);
\* a LeafNode has no method childAtRow.
modelIndex(row, column, parentIndex) ==
    LET branch == nodeFromIndex(parentIndex)
    IN  IF ~Truthy(nodes, Root) THEN Raise("AssertionError")
        ELSE IF branch = 0 THEN Raise("AssertionError")
        ELSE IF nodes[branch].kind = "leaf" THEN Raise("AttributeError")
        ELSE [ok |-> TRUE, err |-> "",
              v |-> createIndex(row, column, childAtRow(nodes, branch, row))]

\* parent() with the row of the node itself in place of the row of its parent
modelParent_rowOfNode(child) ==
    LET node == nodeFromIndex(child)
    IN  IF node = 0 THEN [ok |-> TRUE, err |-> "", v |-> QModelIndex]
        ELSE IF nodes[node].parent = 0
        THEN [ok |-> TRUE, err |-> "", v |-> QModelIndex]
        ELSE IF nodes[nodes[node].parent].parent = 0
        THEN [ok |-> TRUE, err |-> "", v |-> QModelIndex]
        ELSE LET p   == nodes[node].parent
                 row == rowOfChild(nodes, p, node)
             IN  IF row = -1 THEN Raise("AssertionError")
                 ELSE [ok |-> TRUE, err |-> "", v |-> createIndex(row, 0, p)]

\* QTreeModel_Options.parent(child): Ok(the index) or the exception raised
modelParent(child) ==
    LET node == nodeFromIndex(child)
    IN  IF node = 0 THEN [ok |-> TRUE, err |-> "", v |-> QModelIndex]
        ELSE IF nodes[node].parent = 0
        THEN [ok |-> TRUE, err |-> "", v |-> QModelIndex]
        ELSE IF nodes[nodes[node].parent].parent = 0
        THEN [ok |-> TRUE, err |-> "", v |-> QModelIndex]
        ELSE LET p   == nodes[node].parent
                 row == rowOfChild(nodes, nodes[p].parent, p)
             IN  IF row = -1 THEN Raise("AssertionError")
                 ELSE [ok |-> TRUE, err |-> "", v |-> createIndex(row, 0, p)]

\* rowCount without the test for a missing component
rowCount_noComponentTest(parent) ==
    LET node == nodeFromIndex(parent)
    IN  [ret |-> IF node = 0 \/ nodes[node].kind = "leaf" THEN 0
                 ELSE Len(nodes[node].children),
         hints |-> IF view THEN <<"hide_placeholder_text">> ELSE <<>>]

\* rowCount(parent): the result and the view hints it invokes
rowCount(parent) ==
    IF ~component
    THEN [ret |-> 0,
          hints |-> IF view THEN <<"show_placeholder_text">> ELSE <<>>]
    ELSE LET node == nodeFromIndex(parent)
         IN  [ret |-> IF node = 0 \/ nodes[node].kind = "leaf" THEN 0
                      ELSE Len(nodes[node].children),
              hints |-> IF view THEN <<"hide_placeholder_text">> ELSE <<>>]

\* the typed text stored as it is, whatever the old value
coerced_verbatim(old_value, text) == StrV(text)

\* setData, lines 498-505: the value to store for the typed text
coerced(old_value, text) ==
    IF ~IsStr(old_value) THEN parse_param_from_str(text).value ELSE StrV(text)

\* setData, lines 508-511: for x in node.path[:-1]: dic = dic[x];
\* dic[node.path[-1]] = value.  Ok(the dictionary after the write) or the
\* exception raised before anything is written.
RECURSIVE writeNested(_, _, _)
writeNested(dic, path, newvalue) ==
    IF Len(path) = 1
    THEN IF IsDict(dic) THEN Ok(DictV(PutKey(dic.items, path[1], newvalue)))
         ELSE Raise("TypeError")
    ELSE Only({ IF ~sub.ok THEN sub
                ELSE Only({ IF ~r.ok THEN r
                            ELSE Ok(DictV(PutKey(dic.items, Head(path), r.v))) :
                            r \in {writeNested(sub.v, Tail(path), newvalue)} }) :
                sub \in {Subscript(dic, Head(path))} })

\* the write always made as for a top-level option: dic[lbl] = value
written_topLevel(dic, node, newvalue) ==
    Ok(DictV(PutKey(dic.items, nodes[node].name, newvalue)))

\* setData, lines 508-513
written(dic, node, newvalue) ==
    IF nodes[node].path # <<>>
    THEN writeNested(dic, nodes[node].path, newvalue)
    ELSE Ok(DictV(PutKey(dic.items, nodes[node].name, newvalue)))

\* setData with the write undone when component.rebuild() raises
setDataWrite_rollback(call, old_value, text, node, rebuildOk) ==
    LET same   == [call |-> [call EXCEPT !.old = old_value],
                   options |-> options]
        logged == <<"logger.info">>
                  \o (IF ~IsStr(old_value) THEN <<"logger.info">> ELSE <<>>)
    IN  Only({ IF ~w.ok
               THEN [same EXCEPT !.call.ret = "raise", !.call.err = w.err,
                                 !.call.events = logged]
               ELSE IF ~rebuildOk
               THEN [call |-> [same.call EXCEPT
                                 !.ret = "raise", !.err = "rebuild",
                                 !.events = logged \o <<"write", "rebuild">>],
                     options |-> options]
               ELSE [call |-> [same.call EXCEPT
                                 !.ret = "True",
                                 !.events = logged \o <<"write", "rebuild",
                                                        "gui.refresh">>],
                     options |-> w.v] :
               w \in {written(options, node, coerced(old_value, text))} })

\* setData, lines 488-517: the new value is different from the old one
setDataWrite(call, old_value, text, node, rebuildOk) ==
    LET same   == [call |-> [call EXCEPT !.old = old_value],
                   options |-> options]
        logged == <<"logger.info">>
                  \o (IF ~IsStr(old_value) THEN <<"logger.info">> ELSE <<>>)
    IN  Only({ IF ~w.ok
               THEN [same EXCEPT !.call.ret = "raise", !.call.err = w.err,
                                 !.call.events = logged]
               ELSE IF ~rebuildOk
               THEN [call |-> [same.call EXCEPT
                                 !.ret = "raise", !.err = "rebuild",
                                 !.events = logged \o <<"write", "rebuild">>],
                     options |-> w.v]
               ELSE [call |-> [same.call EXCEPT
                                 !.ret = "True",
                                 !.events = logged \o <<"write", "rebuild",
                                                        "gui.refresh">>],
                     options |-> w.v] :
               w \in {written(options, node, coerced(old_value, text))} })

\* setData(index, value, role).  rebuildOk: component.rebuild() returns (TRUE)
\* or raises (FALSE).  The result is the call as observed (ret is "True",
\* "False" or "raise"; old is old_value once it is read; events are the calls
\* made in order, "write" being the assignment into the dictionary) and the
\* dictionary after the call.
setDataResult(index, text, role, rebuildOk) ==
    LET node == nodeFromIndex(index)
        call == [op |-> "setData", index |-> index, value |-> text,
                 role |-> role, old |-> NoneV, ret |-> "False", err |-> "",
                 events |-> <<>>]
        same == [call |-> call, options |-> options]
    IN  IF ~isValid(index) THEN same
        ELSE IF role = "EditRole" /\ index.column = 1 /\ node # 0
                /\ nodes[node].kind = "leaf"
        THEN Only({ IF ~old_value.ok
                    THEN [same EXCEPT !.call.ret = "raise",
                                      !.call.err = old_value.err]
                    ELSE IF old_value.v = StrV(text)
                    THEN [same EXCEPT !.call.old = old_value.v]
                    ELSE IF ~component
                    THEN [same EXCEPT !.call.old = old_value.v,
                                      !.call.ret = "raise",
                                      !.call.err = "AttributeError"]
                    ELSE setDataWrite(call, old_value.v, text, node,
                                      rebuildOk) :
                    old_value \in {value(node)} })
        ELSE same

\* ----------------------------------------------------------------- actions
\* the state after __init__
Init ==
    /\ component \in BOOLEAN
    /\ options \in Dicts
    /\ nodes = load(component, NewRoot, options).nodes
    /\ rowCountCache = -1
    /\ view = TRUE
    /\ last = [op |-> "init"]
    /\ tickRows = -1

rowCountFrom(parents) ==
    \E p \in parents :
        /\ last' = [op |-> "rowCount", index |-> p,
                    ret |-> rowCount(p).ret,
                    events |-> rowCount(p).hints]
        /\ UNCHANGED <<component, options, nodes, rowCountCache, view, tickRows>>

\* the view asks for the number of rows under an index
RowCount == rowCountFrom(Indexes)

\* the timer fires
auto_refresh ==
    LET rc          == rowCount(createIndex(0, 0, 0))
        newRowCount == rc.ret
    IN  /\ IF rowCountCache # newRowCount
           THEN /\ rowCountCache' = newRowCount
                /\ last' = [op |-> "auto_refresh",
                            events |-> rc.hints \o <<"modelReset">>
                               \o (IF view THEN <<"autoresize_columns">>
                                   ELSE <<>>)]
           ELSE /\ rowCountCache' = rowCountCache
                /\ last' = [op |-> "auto_refresh", events |-> rc.hints]
        /\ tickRows' = Len(nodes[Root].children)
        /\ UNCHANGED <<component, options, nodes, view>>

\* refresh(): load(), then modelReset
refresh ==
    LET l == load(component, nodes, options)
    IN  /\ nodes' = l.nodes
        /\ last' = [op |-> "refresh",
                    events |-> (IF l.done
                                THEN <<"beginResetModel", "load",
                                       "endResetModel">>
                                ELSE <<>>) \o <<"modelReset">>]
        /\ UNCHANGED <<component, options, rowCountCache, view, tickRows>>

setDataFrom(indexes, roles) ==
    \E index \in indexes, text \in EditTexts, role \in roles,
       rebuildOk \in BOOLEAN :
        \E r \in {setDataResult(index, text, role, rebuildOk)} :
            /\ options' = r.options
            /\ last' = r.call
            /\ UNCHANGED <<component, nodes, rowCountCache, view, tickRows>>

\* setData called by any caller with any index and role
setData == setDataFrom(Indexes, Roles)

\* setData called by the view's item delegate: the user commits the editor of
\* a cell that flags() reports editable
commitData == setDataFrom({i \in Indexes : flags(i)}, {"EditRole"})

\* the component or a script changes the option dictionary out of band
OptionsChanged ==
    /\ options' \in {d \in mutations(options) :
                        d # options /\ entries(d.items) <= MaxEntries}
    /\ last' = [op |-> "options changed"]
    /\ UNCHANGED <<component, nodes, rowCountCache, view, tickRows>>

\* the component widget selects a component or clears the selection
SetComponent ==
    /\ component' = ~component
    /\ last' = [op |-> "set_component"]
    /\ UNCHANGED <<options, nodes, rowCountCache, view, tickRows>>

\* the view asks for the flags of a cell
Flags ==
    \E index \in Indexes :
        /\ last' = [op |-> "flags", index |-> index, ret |-> flags(index)]
        /\ UNCHANGED <<component, options, nodes, rowCountCache, view, tickRows>>

dataFrom(indexes, roles) ==
    \E index \in indexes, role \in roles, parseOk \in BOOLEAN :
        \E r \in {data(index, role, parseOk)} :
            /\ last' = [op |-> "data", index |-> index, role |-> role,
                        ret |-> r.ret, text |-> r.text, err |-> r.err]
            /\ UNCHANGED <<component, options, nodes, rowCountCache, view,
                           tickRows>>

\* data called by any caller with any index and role
Data == dataFrom(Indexes, DataRoles)

\* data called by the view to display the value column
displayValue == dataFrom({i \in Indexes : i.column = 1}, {"DisplayRole"})

\* the parents a view passes to index(): the root sentinel and the
\* indexes of column 0
ParentIndexes == {i \in Indexes : i = QModelIndex \/ i.column = 0}

indexFrom(parents) ==
    \E row \in Rows, column \in Columns, p \in parents :
        /\ last' = [op |-> "index", row |-> row, column |-> column,
                    parent |-> p, ret |-> modelIndex(row, column, p)]
        /\ UNCHANGED <<component, options, nodes, rowCountCache, view, tickRows>>

\* the view asks for the index of a cell under a parent
Index == indexFrom(ParentIndexes)

parentFrom(children) ==
    \E child \in children :
        /\ last' = [op |-> "parent", index |-> child, ret |-> modelParent(child)]
        /\ UNCHANGED <<component, options, nodes, rowCountCache, view, tickRows>>

\* the view asks for the parent of an index
Parent == parentFrom(Indexes)

\* the indexes a caller holds that the model handed out since the last
\* rebuild: the root sentinel, what the last index() or parent() call
\* returned, and the index that call or the last rowCount() call was given
handedOut ==
    {QModelIndex}
    \cup (IF last.op = "index"
          THEN {last.parent} \cup (IF last.ret.ok THEN {last.ret.v} ELSE {})
          ELSE IF last.op = "parent"
          THEN {last.index} \cup (IF last.ret.ok THEN {last.ret.v} ELSE {})
          ELSE IF last.op = "rowCount" THEN {last.index}
          ELSE {})

\* the view navigates with the indexes it was handed out
indexHandedOut    == indexFrom(handedOut)
parentHandedOut   == parentFrom(handedOut)
rowCountHandedOut == rowCountFrom(handedOut)

Next ==
    \/ RowCount
    \/ Flags
    \/ Data
    \/ Index
    \/ Parent
    \/ auto_refresh
    \/ refresh
    \/ setData
    \/ OptionsChanged
    \/ SetComponent

Spec == Init /\ [][Next]_vars

\* The calls left out of a specification below change only what its own
\* actions never read: RowCount and a setData call on a cell that is not
\* editable change last alone, auto_refresh changes rowCountCache, tickRows
\* and last alone.

\* editing: the delegate's commits, refreshes, out-of-band changes
NextEdit == commitData \/ refresh \/ OptionsChanged \/ SetComponent
SpecEdit == Init /\ [][NextEdit]_vars

\* the timer
NextTimer == auto_refresh \/ refresh \/ OptionsChanged \/ SetComponent
SpecTimer == Init /\ [][NextTimer]_vars

\* the view's row queries
NextRows == RowCount \/ refresh \/ OptionsChanged \/ SetComponent
SpecRows == Init /\ [][NextRows]_vars

\* the tree builder alone: a model constructed on a component with any
\* dictionary of BuildDicts, and rebuilt
InitBuild ==
    /\ component = TRUE
    /\ options \in BuildDicts
    /\ nodes = load(component, NewRoot, options).nodes
    /\ rowCountCache = -1
    /\ view = TRUE
    /\ last = [op |-> "init"]
    /\ tickRows = -1

SpecBuild == InitBuild /\ [][refresh]_vars

\* parse_param_from_str alone, on every text of Texts
InitParse ==
    /\ component = FALSE
    /\ options = DictV(<<>>)
    /\ nodes = NewRoot
    /\ rowCountCache = -1
    /\ view = TRUE
    /\ last \in {[op |-> "text", text |-> t] : t \in Texts}
    /\ tickRows = -1

Parse ==
    /\ last.op = "text"
    /\ last' = [op |-> "parse_param_from_str", text |-> last.text,
                value |-> parse_param_from_str(last.text).value,
                used_ast |-> parse_param_from_str(last.text).used_ast,
                raised |-> parse_param_from_str(last.text).raised]
    /\ UNCHANGED <<component, options, nodes, rowCountCache, view, tickRows>>

SpecParse == InitParse /\ [][Parse]_vars

\* any caller's setData calls and the view's flags queries, on a model
\* constructed on any dictionary of Dicts
NextAnyEdit == setData \/ Flags \/ refresh \/ SetComponent
SpecAnyEdit == Init /\ [][NextAnyEdit]_vars

\* reading and editing cells while the dictionary changes out of band
NextStale == displayValue \/ commitData \/ refresh \/ OptionsChanged \/ SetComponent
SpecStale == Init /\ [][NextStale]_vars

\* navigation on a built tree: a model constructed on a component with any
\* dictionary of BuildDicts, rebuilt and asked for indexes and parents
NextParent == Parent \/ refresh
SpecParent == InitBuild /\ [][NextParent]_vars
NextIndex == Index \/ refresh
SpecIndex == InitBuild /\ [][NextIndex]_vars

\* navigation of a view on a built tree, every index it passes being one the
\* model handed out since the last rebuild
NextNavigate ==
    indexHandedOut \/ parentHandedOut \/ rowCountHandedOut \/ refresh
SpecNavigate == InitBuild /\ [][NextNavigate]_vars

\* ================================================================== claims
Range(s) == {s[i] : i \in 1..Len(s)}
Count(s, e) == Cardinality({i \in 1..Len(s) : s[i] = e})

\* the names on the way from the root's child down to a node
RECURSIVE address(_, _)
address(ns, id) ==
    IF id = 0 \/ id = Root THEN <<>>
    ELSE Append(address(ns, ns[id].parent), ns[id].name)

\* the tree a rebuild makes of the current dictionary on a root without children
freshTree == load(TRUE, NewRoot, options).nodes

\* the scalar values of a dictionary in iteration order, depth first
RECURSIVE scalarValues(_)
scalarValues(items) ==
    IF items = <<>> THEN <<>>
    ELSE (IF IsDict(Head(items)[2]) THEN scalarValues(Head(items)[2].items)
          ELSE << Head(items)[2] >>)
         \o scalarValues(Tail(items))

\* the leaves below a node in child order
RECURSIVE treeLeaves(_, _)
RECURSIVE leavesOfChildren(_, _)
leavesOfChildren(ns, ch) ==
    IF ch = <<>> THEN <<>>
    ELSE treeLeaves(ns, Head(ch)[2]) \o leavesOfChildren(ns, Tail(ch))
treeLeaves(ns, id) ==
    IF ns[id].kind = "leaf" THEN <<id>>
    ELSE leavesOfChildren(ns, ns[id].children)

leafIds == {n \in 1..Len(nodes) : nodes[n].kind = "leaf"}

\* the k-th leaf created by the last rebuild
leafNo(k) == CHOOSE n \in leafIds : Cardinality({m \in leafIds : m < n}) = k - 1

\* a dictionary with v stored under the key sequence keys, mappings made on
\* the way
RECURSIVE insertAt(_, _, _)
insertAt(items, keys, v) ==
    IF Len(keys) = 1 THEN PutKey(items, keys[1], v)
    ELSE LET sub == IF HasKey(items, Head(keys))
                    THEN GetKey(items, Head(keys)).items ELSE <<>>
         IN  PutKey(items, Head(keys), DictV(insertAt(sub, Tail(keys), v)))

\* the dictionary the leaves ls describe: each leaf's stored path with the
\* value it resolves to
RECURSIVE rebuiltFrom(_, _)
rebuiltFrom(items, ls) ==
    IF ls = <<>> THEN items
    ELSE rebuiltFrom(
            IF nodes[Head(ls)].path = <<>> THEN items
            ELSE insertAt(items, nodes[Head(ls)].path, value(Head(ls)).v),
            Tail(ls))

\* a dictionary without the keys under which no scalar is stored
RECURSIVE pruned(_)
pruned(items) ==
    IF items = <<>> THEN <<>>
    ELSE LET k == Head(items)[1]
             v == Head(items)[2]
         IN  IF ~IsDict(v) THEN << Head(items) >> \o pruned(Tail(items))
             ELSE IF scalarValues(v.items) = <<>> THEN pruned(Tail(items))
             ELSE << <<k, DictV(pruned(v.items))>> >> \o pruned(Tail(items))

\* ---------------------------------------------------------------------- C1
\* C1 (SpecEdit): a setData call with the edit role on column 1 of a leaf
\* whose value is a string, with a text different from it, while a component
\* is bound and component.rebuild() returns, stores the text at the leaf's
\* address in the dictionary, returns True and calls rebuild() once and
\* gui.refresh() once.
C1_EditSuccess ==
    (/\ last.op = "setData"
     /\ last.role = "EditRole"
     /\ last.index.column = 1
     /\ IsStr(last.old)
     /\ last.old.s # last.value
     /\ component
     /\ last.err # "rebuild")
    => /\ last.ret = "True"
       /\ get_nested_dict_item(options, address(nodes, last.index.ptr), 0)
            = Ok(StrV(last.value))
       /\ Count(last.events, "rebuild") = 1
       /\ Count(last.events, "gui.refresh") = 1

\* D = {a: {b: '1'}} edited at leaf b to ' h' gives {a: {b: ' h'}}
C1_Witness ==
    /\ last.op = "setData"
    /\ last.ret = "True"
    /\ last.old = StrV(<<"1">>)
    /\ last.value = <<" ", "h">>
    /\ address(nodes, last.index.ptr) = <<"a", "b">>
    /\ options = DictV(<< <<"a", DictV(<< <<"b", StrV(<<" ", "h">>)>> >>)>> >>)

\* ---------------------------------------------------------------------- C2
\* C2 (SpecEdit): a setData call whose text equals the stringified form of
\* the leaf's current value, of whatever type, returns False and makes no
\* call: no log line, no write, no rebuild, no refresh.
C2_EditNoOp ==
    (/\ last.op = "setData"
     /\ last.old.t # "None"
     /\ last.value = str(last.old))
    => /\ last.ret = "False"
       /\ last.events = <<>>

\* ---------------------------------------------------------------------- C3
\* C3 as stated (SpecBuild): after load() the tree has one leaf per
\* scalar-valued key and no other, and the leaves' paths with the values they
\* resolve to reconstruct the dictionary exactly.
C3_LeavesReconstructD ==
    last.op = "refresh"
    => /\ Len(treeLeaves(nodes, Root)) = Len(scalarValues(options.items))
       /\ Cardinality(leafIds) = Len(treeLeaves(nodes, Root))
       /\ rebuiltFrom(<<>>, treeLeaves(nodes, Root)) = options.items

\* C3 as amended (SpecBuild): after load() the tree has one leaf per
\* scalar-valued key and no other, and the leaves' paths with the values they
\* resolve to reconstruct the dictionary without the keys under which no
\* scalar is stored (an empty mapping, or a mapping of such mappings).
C3_LeavesReconstructPruned ==
    last.op = "refresh"
    => /\ Len(treeLeaves(nodes, Root)) = Len(scalarValues(options.items))
       /\ Cardinality(leafIds) = Len(treeLeaves(nodes, Root))
       /\ rebuiltFrom(<<>>, treeLeaves(nodes, Root)) = pruned(options.items)

\* a tree built of a dictionary with a nested leaf and an empty mapping
C3_Witness ==
    /\ last.op = "refresh"
    /\ Len(treeLeaves(nodes, Root)) = 1
    /\ \E n \in leafIds : Len(nodes[n].path) = 2
    /\ pruned(options.items) # options.items

\* ---------------------------------------------------------------------- C4
\* C4 as stated (SpecBuild): right after a rebuild, resolving
\* L.path + [L.label] in the dictionary yields the value of every leaf L
\* (the value the dictionary holds under the key L was made for).
C4_PathPlusLabelResolves ==
    last.op = "refresh"
    => \A k \in 1..Cardinality(leafIds) :
          get_nested_dict_item(options,
                Append(nodes[leafNo(k)].path, nodes[leafNo(k)].name), 0)
            = Ok(scalarValues(options.items)[k])

\* C4 as amended (SpecBuild): right after a rebuild, every leaf L's path ends
\* with L.label, is the sequence of names from the root's child down to L,
\* and resolving L.path alone in the dictionary yields L's value, the value
\* the dictionary holds under the key L was made for.
C4_PathResolves ==
    last.op = "refresh"
    => \A k \in 1..Cardinality(leafIds) :
          /\ nodes[leafNo(k)].path = address(nodes, leafNo(k))
          /\ Last(nodes[leafNo(k)].path) = nodes[leafNo(k)].name
          /\ get_nested_dict_item(options, nodes[leafNo(k)].path, 0)
               = Ok(scalarValues(options.items)[k])
          /\ value(leafNo(k)) = Ok(scalarValues(options.items)[k])

\* a rebuilt tree with a leaf two levels down and a leaf under the root
C4_Witness ==
    /\ last.op = "refresh"
    /\ \E n \in leafIds : nodes[n].path = <<"a", "b">>
    /\ \E n \in leafIds : nodes[n].path = <<"b">>

\* ---------------------------------------------------------------------- C5
\* C5 (SpecEdit): after refresh() with a component bound the node graph is
\* the tree a rebuild makes of the current dictionary on a root without
\* children, whatever changes, edits and refreshes came before, and
\* modelReset is emitted after the rebuild is complete.
C5_RefreshFromCurrentD ==
    (last.op = "refresh" /\ component)
    => /\ nodes = freshTree
       /\ last.events = <<"beginResetModel", "load", "endResetModel",
                          "modelReset">>

\* a refresh that leaves a tree with a branch and a leaf below it
C5_Witness ==
    /\ last.op = "refresh"
    /\ component
    /\ Len(nodes) = 3
    /\ nodes[2].kind = "branch"
    /\ nodes[3].kind = "leaf"

\* ---------------------------------------------------------------------- C6
\* C6 (SpecTimer): at a timer tick with a component bound, if the root's
\* child count differs from the one at the previous tick, the tick emits
\* modelReset and sets the cached row count to the root's child count; if it
\* is the same, the tick emits nothing and leaves the cached count unchanged.
C6_AutoRefreshTrigger ==
    [][ (last'.op = "auto_refresh" /\ component /\ tickRows # -1)
        => /\ Len(nodes[Root].children) # tickRows
              => /\ "modelReset" \in Range(last'.events)
                 /\ rowCountCache' = Len(nodes[Root].children)
           /\ Len(nodes[Root].children) = tickRows
              => /\ "modelReset" \notin Range(last'.events)
                 /\ rowCountCache' = rowCountCache ]_vars

\* ---------------------------------------------------------------------- C7
\* C7 (SpecTimer): when a timer tick detects a changed row count (it emits
\* modelReset) with a component bound, the node graph has been rebuilt from
\* the current dictionary.
C7_TickRebuilds ==
    (/\ last.op = "auto_refresh"
     /\ component
     /\ "modelReset" \in Range(last.events))
    => nodes = freshTree

\* ---------------------------------------------------------------------- C8
\* C8 (SpecRows): with no component bound rowCount returns 0 for every index
\* and invokes show_placeholder_text and not hide_placeholder_text; with a
\* component bound it invokes hide_placeholder_text and not
\* show_placeholder_text.
C8_Placeholder ==
    last.op = "rowCount"
    => /\ ~component => /\ last.ret = 0
                        /\ last.events = <<"show_placeholder_text">>
       /\ component => last.events = <<"hide_placeholder_text">>

\* no component bound, rowCount asked for a branch that has children
C8_Witness ==
    /\ last.op = "rowCount"
    /\ ~component
    /\ last.index.ptr # 0
    /\ nodes[last.index.ptr].kind = "branch"
    /\ Len(nodes[last.index.ptr].children) > 0
    /\ last.ret = 0

\* ---------------------------------------------------------------------- C9
\* C9 (SpecEdit): a setData call that writes stores the typed text verbatim
\* when the leaf's old value is a string, and the value
\* parse_param_from_str makes of the text when it is not: '1' typed over an
\* integer stores the integer 1, ' h' typed over an integer stores the
\* trimmed string 'h', '1' typed over a string stores the string '1'.
C9_CoercionByOldType ==
    (last.op = "setData" /\ "write" \in Range(last.events))
    => LET stored == get_nested_dict_item(options,
                        address(nodes, last.index.ptr), 0)
       IN  /\ stored.ok
           /\ IsStr(last.old) => stored.v = StrV(last.value)
           /\ ~IsStr(last.old)
              => stored.v = parse_param_from_str(last.value).value
           /\ (~IsStr(last.old) /\ last.value = <<"1">>)
              => stored.v = IntV(1)
           /\ (~IsStr(last.old) /\ last.value = <<" ", "h">>)
              => stored.v = StrV(<<"h">>)
           /\ (IsStr(last.old) /\ last.value = <<"1">>)
              => stored.v = StrV(<<"1">>)

\* '1' typed over the integer 2 and stored as the integer 1
C9_Witness ==
    /\ last.op = "setData"
    /\ last.ret = "True"
    /\ last.old = IntV(2)
    /\ last.value = <<"1">>
    /\ get_nested_dict_item(options, address(nodes, last.index.ptr), 0)
         = Ok(IntV(1))

\* --------------------------------------------------------------------- C10
\* t is text without the blanks at its ends
IsTrimmed(text, t) ==
    /\ \E i \in 0..Len(text) : \E j \in i..Len(text) :
          /\ t = SubSeq(text, i + 1, j)
          /\ \A k \in (1..i) \cup ((j + 1)..Len(text)) : text[k] = " "
    /\ t # <<>> => (Head(t) # " " /\ Last(t) # " ")

Trimmed(text) ==
    {t \in {SubSeq(text, i, j) : i \in 1..(Len(text) + 1), j \in 0..Len(text)} :
        IsTrimmed(text, t)}

IsLeafValueCell(index) ==
    /\ isValid(index)
    /\ index.column = 1
    /\ index.ptr \in leafIds

\* C11 (SpecAnyEdit): a setData call with an invalid index, an index of a
\* branch or of no node, a column other than 1 or a role other than the edit
\* role returns False, makes no call (no log line, no write, no rebuild, no
\* refresh) and leaves the dictionary as it was; and flags() reports
\* ItemIsEditable for exactly the indexes of column 1 of a leaf.
C11_OnlyLeafValueWritable ==
    /\ [][ (/\ last'.op = "setData"
            /\ ~(IsLeafValueCell(last'.index) /\ last'.role = "EditRole"))
           => /\ last'.ret = "False"
              /\ last'.events = <<>>
              /\ options' = options ]_vars
    /\ [](last.op = "flags" => (last.ret <=> IsLeafValueCell(last.index)))

\* an edit-role setData call on column 1 of a branch: refused
C11_Witness ==
    /\ last.op = "setData"
    /\ last.role = "EditRole"
    /\ last.index.column = 1
    /\ last.index.ptr # 0
    /\ nodes[last.index.ptr].kind = "branch"
    /\ component
    /\ last.ret = "False"

\* --------------------------------------------------------------------- C12
\* the key sequences of a dictionary whose value is an empty mapping
RECURSIVE emptyMappingPaths(_, _)
emptyMappingPaths(items, prefix) ==
    IF items = <<>> THEN {}
    ELSE LET k == Head(items)[1]
             v == Head(items)[2]
         IN  (IF ~IsDict(v) THEN {}
              ELSE IF v.items = <<>> THEN {Append(prefix, k)}
              ELSE emptyMappingPaths(v.items, Append(prefix, k)))
             \cup emptyMappingPaths(Tail(items), prefix)

\* C12 as stated (SpecBuild): built from an empty dictionary the root has no
\* children and reports zero rows; a key whose value is an empty mapping gives
\* a BranchNode of that name with no children at that place of the tree.
C12_EmptyMappingIsDeadBranch ==
    last.op = "refresh"
    => /\ options.items = <<>>
          => /\ nodes[Root].children = <<>>
             /\ rowCount(QModelIndex).ret = 0
       /\ \A p \in emptyMappingPaths(options.items, <<>>) :
            \E n \in 2..Len(nodes) :
               /\ address(nodes, n) = p
               /\ nodes[n].kind = "branch"
               /\ nodes[n].children = <<>>

\* C12 as amended (SpecBuild): built from an empty dictionary the root has no
\* children and reports zero rows; a key whose value is an empty mapping, or
\* a mapping under which no scalar is stored, gives no node at all: the tree
\* is the one built of the dictionary without these keys, and every
\* BranchNode below the root has at least one child.
C12_EmptyMappingIsAbsent ==
    last.op = "refresh"
    => /\ options.items = <<>>
          => /\ nodes[Root].children = <<>>
             /\ rowCount(QModelIndex).ret = 0
       /\ \A p \in emptyMappingPaths(options.items, <<>>) :
            \A n \in 2..Len(nodes) : address(nodes, n) # p
       /\ nodes = load(TRUE, NewRoot, DictV(pruned(options.items))).nodes
       /\ \A n \in 2..Len(nodes) :
            nodes[n].kind = "branch" => Len(nodes[n].children) > 0

\* {a: {}, b: scalar} built: the root and the leaf b, nothing for a
C12_Witness ==
    /\ last.op = "refresh"
    /\ <<"a">> \in emptyMappingPaths(options.items, <<>>)
    /\ Len(nodes) = 2
    /\ nodes[2].kind = "leaf"
    /\ nodes[2].name = "b"

\* --------------------------------------------------------------------- C13
childIds(ns, b) == {ns[b].children[i][2] : i \in 1..Len(ns[b].children)}
branchIds == {n \in 1..Len(nodes) : nodes[n].kind = "branch"}

\* the (sub-)dictionary a branch stands for
subDict(b) == get_nested_dict_item(options, address(nodes, b), 0).v

RECURSIVE shape(_)
RECURSIVE shapeItems(_)
shapeItems(items) ==
    IF items = <<>> THEN <<>>
    ELSE << <<Head(items)[1], shape(Head(items)[2])>> >>
         \o shapeItems(Tail(items))
shape(v) == IF IsDict(v) THEN DictV(shapeItems(v.items)) ELSE NoneV

\* C14 (SpecEdit): a setData call changes at most the value stored at the
\* edited leaf's address: the keys at every level stay, no key changes between
\* holding a mapping and holding a scalar, and every other entry keeps its
\* value.
C14_StructureNeverMutated ==
    [][ last'.op = "setData"
        => /\ shape(options') = shape(options)
           /\ \/ options' = options
              \/ LET addr == address(nodes, last'.index.ptr)
                 IN  options'.items
                       = insertAt(options.items, addr,
                            get_nested_dict_item(options', addr, 0).v) ]_vars

\* --------------------------------------------------------------------- C15
\* every key of the key sequence is present: each prefix but the last leads
\* to a mapping, and that mapping has the next key
RECURSIVE pathPresent(_, _)
pathPresent(v, keys) ==
    IF keys = <<>> THEN TRUE
    ELSE /\ IsDict(v)
         /\ \E i \in 1..Len(v.items) :
               /\ v.items[i][1] = Head(keys)
               /\ pathPresent(v.items[i][2], Tail(keys))

\* C15 (SpecStale): when a key of a leaf's stored path is absent from the
\* dictionary, or a value on the way is no mapping any more, displaying the
\* leaf's value (data, column 1, with a component bound) ends in KeyError or
\* TypeError, and so does setData on the leaf, which then makes no call (no
\* log line, no write, no rebuild, no refresh) and leaves the dictionary as
\* it was.
C15_StalePathRaises ==
    [][ (/\ last'.op \in {"data", "setData"}
         /\ IsLeafValueCell(last'.index)
         /\ last'.role \in {"DisplayRole", "EditRole"}
         /\ ~pathPresent(options, nodes[last'.index.ptr].path))
        => /\ last'.op = "data" /\ component
              => /\ last'.ret = "raise"
                 /\ last'.err \in {"KeyError", "TypeError"}
           /\ last'.op = "setData" /\ last'.role = "EditRole"
              => /\ last'.ret = "raise"
                 /\ last'.err \in {"KeyError", "TypeError"}
                 /\ last'.events = <<>>
                 /\ options' = options ]_vars

\* setData on a leaf a.b after the dictionary lost the mapping under a
C15_Witness ==
    /\ last.op = "setData"
    /\ last.ret = "raise"
    /\ last.err = "TypeError"
    /\ last.events = <<>>
    /\ Len(nodes[last.index.ptr].path) = 2
    /\ ~pathPresent(options, nodes[last.index.ptr].path)

\* ------------------------------------------------------------------ C16
\* the children of a branch are linked back to it
parentPointersAgree ==
    \A b \in branchIds : \A c \in childIds(nodes, b) : nodes[c].parent = b

\* C16 (SpecParent): every child stored under a branch has that branch as its
\* parent pointer; parent() of the root sentinel or of an index of a child of
\* the root returns the invalid index; for any deeper node n it returns the
\* index (row, 0, n.parent) where row is the position of n.parent among the
\* children of its own parent, a position that exists (never -1).
C16_ParentNavigation ==
    /\ parentPointersAgree
    /\ last.op = "parent" /\ nodeFromIndex(last.index) # 0
       => LET n == nodeFromIndex(last.index)
          IN  /\ last.ret.ok
              /\ IF n = Root \/ nodes[n].parent = Root
                 THEN last.ret.v = QModelIndex
                 ELSE LET p  == nodes[n].parent
                          gp == nodes[p].parent
                      IN  /\ last.ret.v.ptr = p
                          /\ last.ret.v.column = 0
                          /\ last.ret.v.row \in 0..(Len(nodes[gp].children) - 1)
                          /\ nodes[gp].children[last.ret.v.row + 1][2] = p
                          /\ last.ret.v.row = rowOfChild(nodes, gp, p)

\* parent() was asked for the value cell of a leaf of a branch that is the
\* second child of the root
C16_Witness ==
    /\ last.op = "parent"
    /\ isValid(last.index)
    /\ last.index.ptr # 0
    /\ last.index.column = 1
    /\ last.ret.ok
    /\ last.ret.v.row = 1
    /\ last.ret.v.ptr = nodes[last.index.ptr].parent

\* ------------------------------------------------------------------ C17
\* C17 as stated (SpecIndex): for a branch parent, index(row, column, parent)
\* with a row in 0..childCount-1 returns an index of the child at that row,
\* distinct rows giving distinct nodes, and with a row out of range (negative
\* or >= childCount) it returns an invalid index, one the model resolves as
\* it resolves the root sentinel.
C17_IndexInAndOutOfRange ==
    last.op = "index"
    /\ nodeFromIndex(last.parent) # 0
    /\ nodes[nodeFromIndex(last.parent)].kind = "branch"
    => LET b  == nodeFromIndex(last.parent)
           ch == nodes[b].children
       IN  IF last.row \in 0..(Len(ch) - 1)
           THEN /\ last.ret.ok
                /\ isValid(last.ret.v)
                /\ last.ret.v.ptr = ch[last.row + 1][2]
                /\ \A r \in 1..Len(ch) :
                      r # last.row + 1 => ch[r][2] # last.ret.v.ptr
           ELSE /\ last.ret.ok
                /\ ~isValid(last.ret.v)
                /\ nodeFromIndex(last.ret.v) = nodeFromIndex(QModelIndex)

\* ------------------------------------------------------------------ C18
\* the calls made before the write: the log line, and a second log line when
\* the old value is no string and the text is parsed
logLines == {<<"logger.info">>, <<"logger.info", "logger.info">>}

\* C18 (SpecEdit): a setData call that returns True has made, in this order,
\* the log call(s), the write into the dictionary, component.rebuild() and
\* gui.refresh(), each once; when component.rebuild() raises, the call ends
\* in that error and not in True, the log call(s), the write and rebuild()
\* have been made in this order and gui.refresh() has not, and the dictionary
\* holds the new value at the leaf's path.
C18_EditOrderAndRebuildFailure ==
    [][ last'.op = "setData" /\ last'.ret # "False"
        => /\ last'.ret = "True"
              => /\ \E l \in logLines :
                      last'.events = l \o <<"write", "rebuild", "gui.refresh">>
                 /\ get_nested_dict_item(options',
                                         nodes[last'.index.ptr].path, 0)
                      = Ok(coerced(last'.old, last'.value))
           /\ last'.err = "rebuild"
              => /\ last'.ret = "raise"
                 /\ \E l \in logLines : last'.events = l \o <<"write", "rebuild">>
                 /\ get_nested_dict_item(options',
                                         nodes[last'.index.ptr].path, 0)
                      = Ok(coerced(last'.old, last'.value))
                 /\ nodes' = nodes ]_vars

\* D = {a: '1'} edited at leaf a to ' h' while rebuild() raises: the call
\* ended in the error and D is {a: ' h'}
C18_Witness ==
    /\ last.op = "setData"
    /\ last.err = "rebuild"
    /\ last.ret = "raise"
    /\ last.old = StrV(<<"1">>)
    /\ last.value = <<" ", "h">>
    /\ "gui.refresh" \notin Range(last.events)
    /\ options = DictV(<< <<"a", StrV(<<" ", "h">>)>> >>)

\* ------------------------------------------------------------------ C19
\* the names of the children of a branch, and the keys of a dictionary, in order
childNames(ns, b) == [i \in 1..Len(ns[b].children) |-> ns[b].children[i][1]]
keysOf(items) == [i \in 1..Len(items) |-> items[i][1]]

\* C19 (SpecBuild): after a build, under every branch the child names are
\* pairwise distinct and are, in order, the keys of the branch's
\* (sub-)dictionary that have a node (those under which a scalar is stored),
\* in the dictionary's iteration order; every node is the only one with its
\* address, so a key shared by several leaf paths has one BranchNode.
C19_SiblingOrderAndUniqueness ==
    last.op = "refresh"
    => /\ \A b \in branchIds :
            /\ \A i, j \in 1..Len(nodes[b].children) :
                  i # j => nodes[b].children[i][1] # nodes[b].children[j][1]
            /\ childNames(nodes, b) = keysOf(pruned(subDict(b).items))
            /\ \A i \in 1..Len(nodes[b].children) :
                  nodes[nodes[b].children[i][2]].name = nodes[b].children[i][1]
       /\ \A n, m \in 1..Len(nodes) :
            n # m => address(nodes, n) # address(nodes, m)

\* D = {b: {b: s, a: t}} built: one BranchNode b for the two leaf paths, its
\* children b, a in the dictionary's order
C19_Witness ==
    /\ last.op = "refresh"
    /\ Len(nodes) = 4
    /\ childNames(nodes, Root) = <<"b">>
    /\ childNames(nodes, 2) = <<"b", "a">>

\* ------------------------------------------------------------------ C20
\* the names of the branches above a node, from the root's child down to the
\* node's parent
ancestorNames(ns, id) == address(ns, ns[id].parent)

\* C20 (SpecEdit): every LeafNode's stored path is non-empty, ends with the
\* leaf's label and has before it exactly the names of the leaf's ancestor
\* branches; right after a build, resolving the stored path alone in the
\* dictionary yields the scalar the (sub-)dictionary of the leaf's parent
\* holds under the leaf's key; and every setData call that writes does so
\* with a non-empty path, along it: D[path[0]]...[path[-1]] = value.
C20_LeafAddressing ==
    /\ [](\A n \in leafIds :
            /\ nodes[n].path # <<>>
            /\ Last(nodes[n].path) = nodes[n].name
            /\ Front(nodes[n].path) = ancestorNames(nodes, n))
    /\ [](last.op \in {"init", "refresh"} /\ component
          => \A n \in leafIds :
                LET sub == subDict(nodes[n].parent)
                IN  /\ IsDict(sub)
                    /\ HasKey(sub.items, nodes[n].name)
                    /\ ~IsDict(GetKey(sub.items, nodes[n].name))
                    /\ get_nested_dict_item(options, nodes[n].path, 0)
                         = Ok(GetKey(sub.items, nodes[n].name)))
    /\ [][ last'.op = "setData" /\ "write" \in Range(last'.events)
           => /\ nodes[last'.index.ptr].path # <<>>
              /\ options' = DictV(insertAt(options.items,
                                           nodes[last'.index.ptr].path,
                                           coerced(last'.old, last'.value)))
         ]_vars

\* D = {b: {a: 2}} edited at leaf a with the text '1': the write went to
\* D['b']['a']
C20_Witness ==
    /\ last.op = "setData"
    /\ "write" \in Range(last.events)
    /\ nodes[last.index.ptr].path = <<"b", "a">>
    /\ last.old = IntV(2)
    /\ options = DictV(<< <<"b", DictV(<< <<"a", IntV(1)>> >>)>> >>)

\* ------------------------------------------------------------------ C21
\* C21 as stated (SpecNavigate): with a parent that is the root sentinel or an
\* index returned by an earlier index() or parent() call since the last
\* rebuild, index(row, column, parent) returns an index, failing no assertion
\* and raising no other error, and rowCount(parent) returns a count >= 0.
C21_NavigationNeverFails ==
    /\ last.op = "index" => last.ret.ok
    /\ last.op = "rowCount" => last.ret >= 0

====
